---- MODULE Spec2Model ----
(***************************************************************************)
(* Model of src/work.py: the TraderSentimentAnalysis report generator.     *)
(*                                                                         *)
(* A DataFrame is modelled positionally, as pandas holds it: a sequence of *)
(* column labels and a sequence of rows, each row a sequence of values.    *)
(* A value is a tagged record, so that values of every column compare:     *)
(* a string, a rational number num/den (float columns and their means), or *)
(* the null value (NaN / NaT / None, which pandas treats alike).           *)
(* A Series (the result of a groupby aggregation or of value_counts) is a  *)
(* function from its index labels to values; the order in which a Series   *)
(* lists its labels only decides the layout of a chart and is not kept.    *)
(***************************************************************************)
EXTENDS Integers, Sequences, FiniteSets, TLC

VARIABLES
    trader_file,      \* the trade CSV: [header, lines], cells are text
    fear_greed_file,  \* the sentiment CSV: [header, lines]
    pc,               \* where the script (or the caller of the object) is
    error,            \* the exception that ended the run, or "none"
    trader_data,      \* self.trader_data
    fear_greed_data,  \* self.fear_greed_data
    merged_data,      \* self.merged_data
    files,            \* chart images written: file name -> plotted Series
    workbook,         \* the workbook at output_file: a sequence of sheets
    stdout,           \* the lines printed
    insights,         \* what generate_trading_insights returned last
    trader_metrics    \* what calculate_trader_metrics returned last

vars == <<trader_file, fear_greed_file, pc, error, trader_data,
          fear_greed_data, merged_data, files, workbook, stdout, insights,
          trader_metrics>>

-----------------------------------------------------------------------------
(* Bounds of the model.                                                    *)

MaxTrades == 2        \* trade rows of a file of TradeFiles
MaxSentiment == 2     \* sentiment rows of a file of SentimentFiles
MaxAggTrades == 3     \* trade rows of a file of AggTradeFiles
MaxAggSentiment == 1  \* sentiment rows of a file of AggSentimentFiles
MaxSeries == 4        \* sentiment rows of a file of SeriesFiles
MaxApiTrades == 1     \* trade rows of a file of ApiTradeFiles
MaxApiSentiment == 2  \* sentiment rows of a file of ApiSentimentFiles
MaxRuns == 1          \* calls of run_all_analyses on one object

-----------------------------------------------------------------------------
(* Values.                                                                 *)

NaN == [k |-> "nan", s |-> "", num |-> 0, den |-> 1]
Str(x) == [k |-> "str", s |-> x, num |-> 0, den |-> 1]

RECURSIVE Gcd(_, _)
Gcd(a, b) == IF b = 0 THEN a ELSE Gcd(b, a % b)

Abs(n) == IF n < 0 THEN -n ELSE n

\* The rational n/d (d > 0) in lowest terms.
Frac(n, d) ==
    LET g == Gcd(Abs(n), d)
    IN  [k |-> "num", s |-> "", num |-> n \div g, den |-> d \div g]

Num(n) == [k |-> "num", s |-> "", num |-> n, den |-> 1]

IsNull(v) == v.k = "nan"

None == [columns |-> <<>>, data |-> <<>>]

-----------------------------------------------------------------------------
(* Sequence helpers.                                                       *)

RECURSIVE SumSeq(_)
SumSeq(q) == IF q = <<>> THEN 0 ELSE Head(q) + SumSeq(Tail(q))

RECURSIVE Flatten(_)
Flatten(qq) == IF qq = <<>> THEN <<>> ELSE Head(qq) \o Flatten(Tail(qq))

\* The subsequence of q at the positions in keep, from position i on.
RECURSIVE SelectIdx(_, _, _)
SelectIdx(q, keep, i) ==
    IF i > Len(q) THEN <<>>
    ELSE (IF i \in keep THEN <<q[i]>> ELSE <<>>) \o SelectIdx(q, keep, i + 1)

-----------------------------------------------------------------------------
(* DataFrame helpers.                                                      *)

HasCol(df, c) == \E i \in 1..Len(df.columns) : df.columns[i] = c

ColCount(df, c) == Cardinality({i \in 1..Len(df.columns) : df.columns[i] = c})

ColIdx(df, c) ==
    CHOOSE i \in 1..Len(df.columns) :
        /\ df.columns[i] = c
        /\ \A j \in 1..(i - 1) : df.columns[j] # c

NRows(df) == Len(df.data)

\* df[c] : the column as a sequence of values.
Col(df, c) ==
    LET i == ColIdx(df, c) IN [r \in 1..NRows(df) |-> df.data[r][i]]

\* df[c] = vals : overwrite the column in place, or append it as the last one.
SetCol(df, c, vals) ==
    IF HasCol(df, c)
    THEN LET i == ColIdx(df, c)
         IN  [columns |-> df.columns,
              data |-> [r \in 1..NRows(df) |->
                          [j \in 1..Len(df.columns) |->
                              IF j = i THEN vals[r] ELSE df.data[r][j]]]]
    ELSE [columns |-> Append(df.columns, c),
          data |-> [r \in 1..NRows(df) |-> Append(df.data[r], vals[r])]]

\* df.rename(columns=mapping)
Rename(df, names) == [columns |-> names, data |-> df.data]

\* q without its i-th element.
DropAt(q, i) == SubSeq(q, 1, i - 1) \o SubSeq(q, i + 1, Len(q))

-----------------------------------------------------------------------------
(* pd.read_csv: every cell of the file is text.  An empty cell is read as  *)
(* NaN; a column all of whose non-empty cells are numbers becomes a float  *)
(* column, any other column keeps its cells as strings.                    *)

IsNumText(t) == t \in {"-5", "3", "10", "1", "2"}

ParseNum(t) ==
    CASE t = "-5" -> -5
      [] t = "3" -> 3
      [] t = "10" -> 10
      [] t = "1" -> 1
      [] t = "2" -> 2

read_csv(file) ==
    LET numeric(j) ==
            \A r \in 1..Len(file.lines) :
                file.lines[r][j] = "" \/ IsNumText(file.lines[r][j])
        cell(r, j) ==
            LET t == file.lines[r][j]
            IN  IF t = "" THEN NaN
                ELSE IF numeric(j) THEN Num(ParseNum(t))
                ELSE Str(t)
    IN  [columns |-> file.header,
         data |-> [r \in 1..Len(file.lines) |->
                     [j \in 1..Len(file.header) |-> cell(r, j)]]]

-----------------------------------------------------------------------------
(* Dates.  A datetime is [k = "dt", s = the calendar day, num = the minute *)
(* of the day]; a date is [k = "date", s = the calendar day].              *)

DateTime(day, minute) == [k |-> "dt", s |-> day, num |-> minute, den |-> 1]
Date(day) == [k |-> "date", s |-> day, num |-> 0, den |-> 1]

\* What the day-first parser makes of a text, <<>> when it cannot parse it.
ParseDayFirst(t) ==
    CASE t = "01-02-2024 10:00" -> <<DateTime("2024-02-01", 600)>>
      [] t = "01-02-2024 18:30" -> <<DateTime("2024-02-01", 1110)>>
      [] t = "02-01-2024 09:15" -> <<DateTime("2024-01-02", 555)>>
      [] OTHER -> <<>>

\* What the parser makes of a text without dayfirst (the format is detected).
ParseAuto(t) ==
    CASE t = "2024-02-01" -> <<DateTime("2024-02-01", 0)>>
      [] t = "2024-01-02" -> <<DateTime("2024-01-02", 0)>>
      [] t = "01-02-2024 10:00" -> <<DateTime("2024-01-02", 600)>>
      [] t = "01-02-2024 18:30" -> <<DateTime("2024-01-02", 1110)>>
      [] t = "02-01-2024 09:15" -> <<DateTime("2024-02-01", 555)>>
      [] OTHER -> <<>>

\* A value the parser accepts: null (it stays null), a datetime, a number
\* (nanoseconds since the epoch), or a text it can parse.
\* parsed is what the parser makes of the value's text.
Parses(v, parsed) ==
    v.k \in {"nan", "dt", "num"} \/ (v.k = "str" /\ parsed # <<>>)

\* pd.to_datetime of one value that parses.
ToDatetime1(v, parsed) ==
    CASE v.k = "nan" -> NaN
      [] v.k = "dt" -> v
      [] v.k = "num" -> DateTime("1970-01-01", 0)
      [] OTHER -> parsed[1]

\* pd.to_datetime(column, dayfirst=True, errors="coerce")
to_datetime_coerce(vals) ==
    [r \in 1..Len(vals) |->
        IF Parses(vals[r], ParseDayFirst(vals[r].s))
        THEN ToDatetime1(vals[r], ParseDayFirst(vals[r].s)) ELSE NaN]

\* pd.to_datetime(column): raises when one value does not parse.
to_datetime_raises(vals) ==
    \E r \in 1..Len(vals) : ~Parses(vals[r], ParseAuto(vals[r].s))

to_datetime(vals) ==
    [r \in 1..Len(vals) |-> ToDatetime1(vals[r], ParseAuto(vals[r].s))]

\* column.dt.date : the calendar day of each datetime, NaT stays NaT.
dt_date(vals) ==
    [r \in 1..Len(vals) |-> IF IsNull(vals[r]) THEN NaN ELSE Date(vals[r].s)]

-----------------------------------------------------------------------------
(* The loaders.  Each returns [err, df]: err is "none" or the exception.   *)

SchemaError == "KeyError: No valid time column found in trader data"

\* Variant: the mapping names the timestamp header wrongly.
column_mapping_wrong_time_header(h) ==
    CASE h = "Account" -> "account"
      [] h = "Coin" -> "symbol"
      [] h = "Execution Price" -> "execution_price"
      [] h = "Size Tokens" -> "size"
      [] h = "Side" -> "side"
      [] h = "Timestamp" -> "time"
      [] h = "Start Position" -> "start_position"
      [] h = "Direction" -> "event"
      [] h = "Closed PnL" -> "closedPnL"
      [] OTHER -> h

column_mapping(h) ==
    CASE h = "Account" -> "account"
      [] h = "Coin" -> "symbol"
      [] h = "Execution Price" -> "execution_price"
      [] h = "Size Tokens" -> "size"
      [] h = "Side" -> "side"
      [] h = "Timestamp IST" -> "time"
      [] h = "Start Position" -> "start_position"
      [] h = "Direction" -> "event"
      [] h = "Closed PnL" -> "closedPnL"
      [] OTHER -> h

\* The frame with its time column parsed, the Date column derived from it
\* and the leverage column synthesized when the file has none.
with_date_and_leverage(df1) ==
    LET df2 == SetCol(df1, "time", to_datetime_coerce(Col(df1, "time")))
        df3 == SetCol(df2, "Date", dt_date(Col(df2, "time")))
    IN  IF ~HasCol(df3, "leverage")
        THEN SetCol(df3, "leverage", [r \in 1..NRows(df3) |-> NaN])
        ELSE df3

DuplicateTimeError == "ValueError: cannot assemble with duplicate keys"

\* Variant: a missing time column is defaulted to nulls instead of raising.
load_trader_data_default_time(file) ==
    LET df1 == Rename(read_csv(file),
                         [j \in 1..Len(file.header) |->
                             column_mapping(file.header[j])])
    IN  IF ~HasCol(df1, "time")
        THEN [err |-> "none",
              df |-> with_date_and_leverage(
                        SetCol(df1, "time", [r \in 1..NRows(df1) |-> NaN]))]
        ELSE IF ColCount(df1, "time") > 1
        THEN [err |-> DuplicateTimeError, df |-> None]
        ELSE [err |-> "none", df |-> with_date_and_leverage(df1)]

load_trader_data(file) ==
    LET df0 == read_csv(file)
        df1 == Rename(df0, [j \in 1..Len(df0.columns) |->
                                 column_mapping(df0.columns[j])])
    IN  IF ~HasCol(df1, "time")
        THEN [err |-> SchemaError, df |-> None]
        ELSE IF ColCount(df1, "time") > 1
        \* df["time"] is then a frame of two columns, which to_datetime
        \* refuses to assemble into dates
        THEN [err |-> DuplicateTimeError, df |-> None]
        ELSE [err |-> "none", df |-> with_date_and_leverage(df1)]

fear_greed_mapping(h) ==
    CASE h = "date" -> "Date"
      [] h = "classification" -> "Classification"
      [] OTHER -> h

load_fear_greed_data(file) ==
    LET df0 == read_csv(file)
        df1 == Rename(df0, [j \in 1..Len(df0.columns) |->
                                 fear_greed_mapping(df0.columns[j])])
    IN  IF ~HasCol(df1, "Date")
        THEN [err |-> "KeyError: 'Date'", df |-> None]
        ELSE IF to_datetime_raises(Col(df1, "Date"))
        THEN [err |-> "ValueError: unknown datetime string format", df |-> None]
        ELSE [err |-> "none",
              df |-> SetCol(df1, "Date", dt_date(to_datetime(Col(df1, "Date"))))]

-----------------------------------------------------------------------------
(* pd.merge(left, right, on="Date", how="inner").  The keys are matched by *)
(* value, and pandas matches a null key with every null key of the other   *)
(* side.  The result has the columns of left, then those of right without  *)
(* the key; its rows follow the order of left, and for one left row the    *)
(* order of right.                                                         *)

KeysMatch(a, b) ==
    IF IsNull(a) \/ IsNull(b) THEN IsNull(a) /\ IsNull(b) ELSE a = b

merge(left, right) ==
    LET li == ColIdx(left, "Date")
        ri == ColIdx(right, "Date")
        matches(l) ==
            LET hit == {r \in 1..NRows(right) :
                           KeysMatch(left.data[l][li], right.data[r][ri])}
                joined == [r \in 1..NRows(right) |->
                              left.data[l] \o DropAt(right.data[r], ri)]
            IN  SelectIdx(joined, hit, 1)
    IN  [columns |-> left.columns \o DropAt(right.columns, ri),
         data |-> Flatten([l \in 1..NRows(left) |-> matches(l)])]

-----------------------------------------------------------------------------
(* Arithmetic on values: sum and mean skip nulls, as pandas does.          *)

FracAdd(a, b) == Frac(a.num * b.den + b.num * a.den, a.den * b.den)

NonNull(vals) == SelectIdx(vals, {i \in 1..Len(vals) : ~IsNull(vals[i])}, 1)

RECURSIVE SumVals(_)
SumVals(vals) ==
    IF vals = <<>> THEN Num(0)
    ELSE IF IsNull(Head(vals)) THEN SumVals(Tail(vals))
    ELSE FracAdd(Head(vals), SumVals(Tail(vals)))

\* The mean of the non-null values; NaN when there is none.
MeanVals(vals) ==
    LET n == Len(NonNull(vals))
        t == SumVals(vals)
    IN  IF n = 0 THEN NaN ELSE Frac(t.num, t.den * n)

\* The number of non-null values.
CountVals(vals) == Num(Len(NonNull(vals)))

-----------------------------------------------------------------------------
(* groupby.  A group key is the tuple of the key columns' values; rows     *)
(* with a null in a key column belong to no group (dropna=True, the        *)
(* default).  The groups come sorted by key (sort=True, the default).      *)

\* The key of every row.
Keys(df, keycols) ==
    LET ix == [i \in 1..Len(keycols) |-> ColIdx(df, keycols[i])]
    IN  [r \in 1..NRows(df) |-> [i \in 1..Len(ix) |-> df.data[r][ix[i]]]]

HasNull(key) == \E i \in 1..Len(key) : IsNull(key[i])

\* The keys of the groups, given the key of every row.
GroupKeys(ks) == {ks[r] : r \in {x \in 1..Len(ks) : ~HasNull(ks[x])}}

\* The values of a column in the rows of the group, in row order.
GroupVals(ks, key, vals) ==
    SelectIdx(vals, {r \in 1..Len(ks) : ks[r] = key}, 1)

\* The order of the labels that occur in the inputs of the model.
LabelOrd(t) ==
    CASE t = "0xa1" -> 1
      [] t = "0xb2" -> 2
      [] t = "2024-01-02" -> 1
      [] t = "2024-02-01" -> 2
      [] t = "Fear" -> 1
      [] t = "Greed" -> 2
      [] t = "Neutral" -> 3
      [] OTHER -> 0

RECURSIVE KeyLess(_, _, _)
KeyLess(a, b, i) ==
    IF i > Len(a) THEN FALSE
    ELSE IF LabelOrd(a[i].s) # LabelOrd(b[i].s)
    THEN LabelOrd(a[i].s) < LabelOrd(b[i].s)
    ELSE KeyLess(a, b, i + 1)

RECURSIVE SortKeys(_)
SortKeys(K) ==
    IF K = {} THEN <<>>
    ELSE LET m == CHOOSE a \in K : \A b \in K \ {a} : KeyLess(a, b, 1)
         IN  <<m>> \o SortKeys(K \ {m})

\* df.groupby(c)[x] : the values of column x in each group, indexed by the
\* labels of column c.
GroupSeries(df, c, x) ==
    LET ks == Keys(df, <<c>>)
        vals == Col(df, x)
    IN  [lbl \in {key[1].s : key \in GroupKeys(ks)} |->
            GroupVals(ks, <<Str(lbl)>>, vals)]

\* series.get(lbl, default)
Get(series, lbl, default) ==
    IF lbl \in DOMAIN series THEN series[lbl] ELSE default

\* column.value_counts() : the count of each non-null label.
value_counts(vals) ==
    [lbl \in {vals[r].s : r \in {x \in 1..Len(vals) : ~IsNull(vals[x])}} |->
        Num(Cardinality({r \in 1..Len(vals) :
                            ~IsNull(vals[r]) /\ vals[r].s = lbl}))]

-----------------------------------------------------------------------------
(* The aggregations.                                                       *)

MetricColumns ==
    <<"account", "Date", "Classification",
      "total_pnl", "avg_leverage", "trade_count", "avg_size">>

GroupColumns == <<"account", "Date", "Classification">>

\* Variant: total_pnl aggregated with "mean" instead of "sum".
calculate_trader_metrics_mean(merged) ==
    LET ks == Keys(merged, GroupColumns)
        keys == SortKeys(GroupKeys(ks))
        pnl == Col(merged, "closedPnL")
        lev == Col(merged, "leverage")
        acc == Col(merged, "account")
        size == Col(merged, "size")
        row(key) ==
            key \o << MeanVals(GroupVals(ks, key, pnl)),
                      MeanVals(GroupVals(ks, key, lev)),
                      CountVals(GroupVals(ks, key, acc)),
                      MeanVals(GroupVals(ks, key, size)) >>
    IN  [columns |-> MetricColumns,
         data |-> [g \in 1..Len(keys) |-> row(keys[g])]]

calculate_trader_metrics(merged) ==
    LET ks == Keys(merged, GroupColumns)
        keys == SortKeys(GroupKeys(ks))
        pnl == Col(merged, "closedPnL")
        lev == Col(merged, "leverage")
        acc == Col(merged, "account")
        size == Col(merged, "size")
        row(key) ==
            key \o << SumVals(GroupVals(ks, key, pnl)),
                      MeanVals(GroupVals(ks, key, lev)),
                      CountVals(GroupVals(ks, key, acc)),
                      MeanVals(GroupVals(ks, key, size)) >>
    IN  [columns |-> MetricColumns,
         data |-> [g \in 1..Len(keys) |-> row(keys[g])]]

sentiment_counts(fg) == value_counts(Col(fg, "Classification"))

sentiment_perf(merged) ==
    LET groups == GroupSeries(merged, "Classification", "closedPnL")
    IN  [lbl \in DOMAIN groups |-> MeanVals(groups[lbl])]

avg_leverage(merged) ==
    LET groups == GroupSeries(merged, "Classification", "leverage")
    IN  [lbl \in DOMAIN groups |-> MeanVals(groups[lbl])]

TopN == 10

\* a >= b for two numbers
FracGeq(a, b) == a.num * b.den >= b.num * a.den

\* The total PnL of each account, the TopN largest: every choice that
\* sort_values(ascending=False).head(TopN) can make among equal totals.
top_traders(merged) ==
    LET groups == GroupSeries(merged, "account", "closedPnL")
        totals == [lbl \in DOMAIN groups |-> SumVals(groups[lbl])]
        n == IF Cardinality(DOMAIN totals) < TopN
             THEN Cardinality(DOMAIN totals) ELSE TopN
    IN  {[a \in T |-> totals[a]] :
            T \in {T \in SUBSET DOMAIN totals :
                      /\ Cardinality(T) = n
                      /\ \A a \in T : \A b \in (DOMAIN totals) \ T :
                            FracGeq(totals[a], totals[b])}}

\* Variant: the column shifted the other way, shift(-1).
shift_back(vals) ==
    [r \in 1..Len(vals) |-> IF r = Len(vals) THEN NaN ELSE vals[r + 1]]

\* column.shift(1)
shift1(vals) == [r \in 1..Len(vals) |-> IF r = 1 THEN NaN ELSE vals[r - 1]]

\* a + b on strings; a null operand gives null.
StrAdd(a, b) == IF IsNull(a) \/ IsNull(b) THEN NaN ELSE Str(a.s \o b.s)

\* The sentiment frame after sentiment_transition_analysis added its columns.
with_transitions(fg) ==
    LET cls == Col(fg, "Classification")
        fg1 == SetCol(fg, "Prev_Sentiment", shift1(cls))
        prev == Col(fg1, "Prev_Sentiment")
    IN  SetCol(fg1, "Transition",
               [r \in 1..Len(cls) |->
                   StrAdd(StrAdd(prev[r], Str(" → ")), cls[r])])

transition_counts(fg) == value_counts(Col(with_transitions(fg), "Transition"))

-----------------------------------------------------------------------------
(* generate_trading_insights.                                              *)

Digit(d) == ToString(d)

\* format(v, ".2f"): "nan" for NaN, else the number rounded to hundredths
\* (half to even) with exactly two decimals.
Fmt2(v) ==
    IF IsNull(v) THEN "nan"
    ELSE LET a == 100 * Abs(v.num)
             q == a \div v.den
             r == a % v.den
             h == IF 2 * r > v.den THEN q + 1
                  ELSE IF 2 * r = v.den THEN q + (q % 2)
                  ELSE q
         IN  (IF v.num < 0 THEN "-" ELSE "") \o ToString(h \div 100) \o "."
                \o Digit((h % 100) \div 10) \o Digit(h % 10)

FearSentence == "Traders tend to lose more during Fear sentiment."
GreedSentence == "Traders perform better during Greed sentiment."

\* Variant: <= 0 in place of < 0.
NonPositive(v) == ~IsNull(v) /\ v.num <= 0

\* x < 0 and x > 0 on a float: both are false of NaN.
Negative(v) == ~IsNull(v) /\ v.num < 0
Positive(v) == ~IsNull(v) /\ v.num > 0

generate_trading_insights(merged) ==
    LET perf == sentiment_perf(merged)
        lev == avg_leverage(merged)
    IN  (IF Negative(Get(perf, "Fear", Num(0))) THEN <<FearSentence>> ELSE <<>>)
     \o (IF Positive(Get(perf, "Greed", Num(0))) THEN <<GreedSentence>> ELSE <<>>)
     \o <<"Avg leverage during Fear: " \o Fmt2(Get(lev, "Fear", Num(0)))>>
     \o <<"Avg leverage during Greed: " \o Fmt2(Get(lev, "Greed", Num(0)))>>

-----------------------------------------------------------------------------
(* export_to_excel.  A sheet holds the header cells and the rows of the    *)
(* frame (index=False); to_excel writes a null as an empty cell.           *)

EmptyCell == [k |-> "empty", s |-> "", num |-> 0, den |-> 1]

ExcelCell(v) == IF IsNull(v) THEN EmptyCell ELSE v

to_excel(df, sheet_name) ==
    [title |-> sheet_name,
     header |-> [j \in 1..Len(df.columns) |->
                    [text |-> df.columns[j], style |-> "default"]],
     rows |-> [r \in 1..NRows(df) |->
                  [j \in 1..Len(df.columns) |-> ExcelCell(df.data[r][j])]]]

HeaderStyle == "bold FFFFFF, solid 4F81BD, center"

style_excel_workbook(wb) ==
    [i \in 1..Len(wb) |->
        [title |-> wb[i].title,
         header |-> [j \in 1..Len(wb[i].header) |->
                        [text |-> wb[i].header[j].text, style |-> HeaderStyle]],
         rows |-> wb[i].rows]]

written_workbook(metrics, merged) ==
    style_excel_workbook(
        << to_excel(metrics, "Trader Metrics"),
           to_excel(merged, "Merged Data") >>)

\* The sheet of the workbook with the given title.
Sheet(wb, title) == wb[CHOOSE i \in 1..Len(wb) : wb[i].title = title]

OutputFile == "trader_sentiment_analysis.xlsx"

-----------------------------------------------------------------------------
(* The input files.  A file is [header, lines]; every line has one text    *)
(* cell per header.                                                        *)

\* The lines whose j-th cell is drawn from doms[j].
RECURSIVE RowsOf(_)
RowsOf(doms) ==
    IF doms = <<>> THEN {<<>>}
    ELSE {<<c>> \o rest : c \in Head(doms), rest \in RowsOf(Tail(doms))}

SeqsBetween(S, lo, hi) == UNION {[1..m -> S] : m \in lo..hi}

\* Trade files with and without a time column, with and without leverage.
TradeHeaders ==
    { <<"Account", "Coin", "Closed PnL", "Size Tokens", "Timestamp IST">>,
      <<"Account", "Closed PnL", "Size Tokens", "Timestamp IST", "leverage">>,
      <<"account", "closedPnL", "size", "time">>,
      <<"Account", "Closed PnL", "Size Tokens", "Timestamp">>,
      <<"Account", "Closed PnL", "Size Tokens", "leverage">>,
      <<"Account", "Closed PnL", "Size Tokens", "Timestamp IST", "time">> }

TradeCells(h) ==
    CASE h \in {"Account", "account"} -> {"0xa1"}
      [] h = "Coin" -> {"BTC"}
      [] h \in {"Closed PnL", "closedPnL"} -> {"3"}
      [] h \in {"Size Tokens", "size"} -> {"2"}
      [] h \in {"Timestamp IST", "time", "Timestamp"} ->
            {"01-02-2024 10:00", "n/a"}
      [] h = "leverage" -> {"2"}

TradeFiles ==
    UNION {{[header |-> h, lines |-> l] :
              l \in SeqsBetween(RowsOf([j \in 1..Len(h) |-> TradeCells(h[j])]),
                                1, MaxTrades)} :
           h \in TradeHeaders}

SentimentHeader == <<"date", "classification">>

SentimentFiles ==
    {[header |-> SentimentHeader, lines |-> l] :
        l \in SeqsBetween({"2024-02-01", "", "soon"} \X {"Fear", "Greed"},
                          0, MaxSentiment)}

\* Trades of several accounts, amounts and leverages on one day, one of
\* them without an account and one with a timestamp that does not parse.
AggHeader ==
    <<"Account", "Closed PnL", "Size Tokens", "Timestamp IST", "leverage">>

AggTradeRows ==
    { <<"0xa1", "10", "2", "01-02-2024 10:00", "1">>,
      <<"0xa1", "-5", "2", "01-02-2024 18:30", "2">>,
      <<"0xa1", "3", "1", "01-02-2024 10:00", "">>,
      <<"0xb2", "3", "2", "01-02-2024 10:00", "2">>,
      <<"", "3", "2", "01-02-2024 10:00", "1">>,
      <<"0xa1", "3", "2", "n/a", "1">> }

AggTradeFiles ==
    {[header |-> AggHeader, lines |-> l] :
        l \in SeqsBetween(AggTradeRows, 1, MaxAggTrades)}

AggSentimentFiles ==
    {[header |-> SentimentHeader, lines |-> l] :
        l \in SeqsBetween({ <<"2024-02-01", "Fear">>, <<"2024-02-01", "Greed">>,
                            <<"", "Fear">> }, 0, MaxAggSentiment)}

\* Sentiment series whose file order is not the order of the dates.
SeriesTradeFiles ==
    {[header |-> AggHeader,
      lines |-> << <<"0xa1", "3", "2", "01-02-2024 10:00", "1">> >>]}

SeriesFiles ==
    {[header |-> SentimentHeader, lines |-> l] :
        l \in SeqsBetween({"2024-02-01", "2024-01-02"} \X {"Fear", "Greed", ""},
                          0, MaxSeries)}

ApiTradeFiles ==
    {[header |-> AggHeader, lines |-> l] :
        l \in SeqsBetween({ <<"0xa1", "-5", "2", "01-02-2024 10:00", "1">>,
                            <<"0xb2", "3", "2", "n/a", "2">> }, 1, MaxApiTrades)}

ApiSentimentFiles ==
    {[header |-> SentimentHeader, lines |-> l] :
        l \in SeqsBetween({ <<"2024-02-01", "Fear">>, <<"2024-02-01", "Greed">>,
                            <<"", "Fear">> }, 0, MaxApiSentiment)}

-----------------------------------------------------------------------------
(* The state machine.                                                      *)

NoFiles == [n \in {} |-> None]

InitWith(T, F) ==
    /\ trader_file \in T
    /\ fear_greed_file \in F
    /\ pc = "start"
    /\ error = "none"
    /\ trader_data = None
    /\ fear_greed_data = None
    /\ merged_data = None
    /\ files = NoFiles
    /\ workbook = <<>>
    /\ stdout = <<>>
    /\ insights = <<>>
    /\ trader_metrics = None

\* TraderSentimentAnalysis(trader_file, fear_greed_file, output_file): an
\* exception of a loader leaves the constructor, and no object exists.
Construct ==
    /\ pc = "start"
    /\ LET t == load_trader_data(trader_file)
           f == load_fear_greed_data(fear_greed_file)
           ok == t.err = "none" /\ f.err = "none"
       IN  /\ error' = IF t.err # "none" THEN t.err ELSE f.err
           /\ trader_data' = t.df
           /\ fear_greed_data' = IF t.err = "none" THEN f.df ELSE None
           /\ merged_data' = IF ok THEN merge(t.df, f.df) ELSE None
           /\ pc' = IF ok THEN "constructed" ELSE "aborted"
    /\ UNCHANGED <<trader_file, fear_greed_file, files, workbook, stdout,
                   insights, trader_metrics>>

\* plt.savefig(name) of a chart of the series; an earlier file is replaced.
savefig(fs, name, series) == (name :> series) @@ fs

analyze_sentiment_distribution(fs, fg) ==
    savefig(fs, "sentiment_distribution.png", sentiment_counts(fg))

analyze_performance_by_sentiment(fs, merged) ==
    savefig(fs, "performance_by_sentiment.png", sentiment_perf(merged))

analyze_top_performers(fs, top) ==
    savefig(fs, "top_traders.png", top)

sentiment_transition_analysis(fs, fg) ==
    [frame |-> with_transitions(fg),
     files |-> savefig(fs, "sentiment_transitions.png", transition_counts(fg))]

\* print("-", i)
Bullet(i) == "- " \o i

InsightsHeader == "\nGenerated Insights:"

print_insights(out, ins) ==
    out \o <<InsightsHeader>> \o [i \in 1..Len(ins) |-> Bullet(ins[i])]

CompletionMessage == "\nAnalysis complete. Results exported to: " \o OutputFile

\* The effect of each method on the object and on the outputs.
calculate_trader_metrics_call ==
    /\ trader_metrics' = calculate_trader_metrics(merged_data)
    /\ UNCHANGED <<trader_file, fear_greed_file, error, trader_data,
                   fear_greed_data, merged_data, files, workbook, stdout,
                   insights>>

analyze_sentiment_distribution_call ==
    /\ files' = analyze_sentiment_distribution(files, fear_greed_data)
    /\ UNCHANGED <<trader_file, fear_greed_file, error, trader_data,
                   fear_greed_data, merged_data, workbook, stdout, insights,
                   trader_metrics>>

analyze_performance_by_sentiment_call ==
    /\ files' = analyze_performance_by_sentiment(files, merged_data)
    /\ UNCHANGED <<trader_file, fear_greed_file, error, trader_data,
                   fear_greed_data, merged_data, workbook, stdout, insights,
                   trader_metrics>>

analyze_top_performers_call ==
    /\ \E top \in top_traders(merged_data) :
          files' = analyze_top_performers(files, top)
    /\ UNCHANGED <<trader_file, fear_greed_file, error, trader_data,
                   fear_greed_data, merged_data, workbook, stdout, insights,
                   trader_metrics>>

\* Variant: the two columns are added to the merged frame.
sentiment_transition_analysis_on_merged ==
    /\ merged_data' = with_transitions(merged_data)
    /\ files' = sentiment_transition_analysis(files, fear_greed_data).files
    /\ UNCHANGED <<trader_file, fear_greed_file, error, trader_data,
                   fear_greed_data, workbook, stdout, insights, trader_metrics>>

sentiment_transition_analysis_call ==
    /\ LET r == sentiment_transition_analysis(files, fear_greed_data)
       IN  /\ fear_greed_data' = r.frame
           /\ files' = r.files
    /\ UNCHANGED <<trader_file, fear_greed_file, error, trader_data,
                   merged_data, workbook, stdout, insights, trader_metrics>>

generate_trading_insights_call ==
    /\ insights' = generate_trading_insights(merged_data)
    /\ UNCHANGED <<trader_file, fear_greed_file, error, trader_data,
                   fear_greed_data, merged_data, files, workbook, stdout,
                   trader_metrics>>

export_to_excel_call ==
    /\ trader_metrics' = calculate_trader_metrics(merged_data)
    /\ workbook' = written_workbook(trader_metrics', merged_data)
    /\ UNCHANGED <<trader_file, fear_greed_file, error, trader_data,
                   fear_greed_data, merged_data, files, stdout, insights>>

run_all_analyses_call ==
    /\ \E top \in top_traders(merged_data) :
          LET f1 == analyze_sentiment_distribution(files, fear_greed_data)
              f2 == analyze_performance_by_sentiment(f1, merged_data)
              f3 == analyze_top_performers(f2, top)
              r == sentiment_transition_analysis(f3, fear_greed_data)
              ins == generate_trading_insights(merged_data)
          IN  /\ files' = r.files
              /\ fear_greed_data' = r.frame
              /\ insights' = ins
              /\ stdout' = print_insights(stdout, ins)
    /\ UNCHANGED <<trader_file, fear_greed_file, error, trader_data,
                   merged_data, workbook, trader_metrics>>

\* The script: construct, run_all_analyses, export_to_excel, print.
MainRunAll ==
    /\ pc = "constructed"
    /\ run_all_analyses_call
    /\ pc' = "analysed"

MainExport ==
    /\ pc = "analysed"
    /\ export_to_excel_call
    /\ pc' = "exported"

MainPrint ==
    /\ pc = "exported"
    /\ stdout' = Append(stdout, CompletionMessage)
    /\ pc' = "done"
    /\ UNCHANGED <<trader_file, fear_greed_file, error, trader_data,
                   fear_greed_data, merged_data, files, workbook, insights,
                   trader_metrics>>

Next == Construct \/ MainRunAll \/ MainExport \/ MainPrint

\* A caller that holds the object and calls its methods in any order.
Runs == Cardinality({i \in 1..Len(stdout) : stdout[i] = InsightsHeader})

CallMetrics ==
    pc = "constructed" /\ calculate_trader_metrics_call /\ UNCHANGED pc

CallDistribution ==
    pc = "constructed" /\ analyze_sentiment_distribution_call /\ UNCHANGED pc

CallPerformance ==
    pc = "constructed" /\ analyze_performance_by_sentiment_call /\ UNCHANGED pc

CallTopPerformers ==
    pc = "constructed" /\ analyze_top_performers_call /\ UNCHANGED pc

CallTransitions ==
    pc = "constructed" /\ sentiment_transition_analysis_call /\ UNCHANGED pc

CallInsights ==
    pc = "constructed" /\ generate_trading_insights_call /\ UNCHANGED pc

CallExport ==
    pc = "constructed" /\ export_to_excel_call /\ UNCHANGED pc

CallRunAll ==
    pc = "constructed" /\ Runs < MaxRuns /\ run_all_analyses_call
        /\ UNCHANGED pc

NextApi ==
    \/ Construct
    \/ CallMetrics
    \/ CallDistribution
    \/ CallPerformance
    \/ CallTopPerformers
    \/ CallTransitions
    \/ CallInsights
    \/ CallExport
    \/ CallRunAll

Init == InitWith(TradeFiles, SentimentFiles)
InitAgg == InitWith(AggTradeFiles, AggSentimentFiles)
InitSeries == InitWith(SeriesTradeFiles, SeriesFiles)
InitApi == InitWith(ApiTradeFiles, ApiSentimentFiles)

Spec == Init /\ [][Next]_vars
SpecAgg == InitAgg /\ [][Next]_vars
SpecSeries == InitSeries /\ [][Next]_vars
SpecApi == InitApi /\ [][NextApi]_vars

-----------------------------------------------------------------------------
(* Notions the properties are stated with, computed from the input files   *)
(* and the state, not with the operators of the model above.               *)

Constructed == pc \in {"constructed", "analysed", "exported", "done"}
Analysed == pc \in {"analysed", "exported", "done"}
Exported == pc \in {"exported", "done"}

\* The trade file has a 'Timestamp IST' or an already canonical 'time' column.
HasTimeColumn(file) ==
    \E j \in 1..Len(file.header) : file.header[j] \in {"Timestamp IST", "time"}

NoOutput == files = NoFiles /\ workbook = <<>> /\ stdout = <<>>

RECURSIVE SetSum(_, _)
SetSum(f, S) ==
    IF S = {} THEN 0
    ELSE LET x == CHOOSE y \in S : TRUE IN f[x] + SetSum(f, S \ {x})

MergedCol(c) == Col(merged_data, c)
MergedRows == 1..NRows(merged_data)

\* closedPnL of the merged rows, as integers (the files hold whole amounts).
MergedPnl == [r \in MergedRows |-> MergedCol("closedPnL")[r].num]

RowsClassified(label) ==
    {r \in MergedRows : MergedCol("Classification")[r] = Str(label)}

\* Number of positions of the sequence q holding x.
Occurrences(q, x) == Cardinality({i \in 1..Len(q) : q[i] = x})

-----------------------------------------------------------------------------
(* C1.  A trade whose timestamp failed to parse is excluded by the join:   *)
(* no row of merged_data has a null time, whatever the sentiment input     *)
(* holds (rows with a null date included).                                 *)
C1_UnparsedTradeExcluded ==
    Constructed => \A r \in MergedRows : ~IsNull(MergedCol("time")[r])

-----------------------------------------------------------------------------
(* C2.  generate_trading_insights ends with exactly two leverage           *)
(* statements, for Fear and then for Greed, each showing a number with two *)
(* decimals; it shows 0.00 for a classification without merged rows.       *)
DigitTexts == {"0", "1", "2", "3", "4", "5", "6", "7", "8", "9"}

TwoDecimalTexts == {i \o "." \o a \o b : i \in DigitTexts, a \in DigitTexts,
                                         b \in DigitTexts}

LeverageLine(label, text) == "Avg leverage during " \o label \o ": " \o text

C2_TwoLeverageStatements ==
    Analysed =>
      LET n == Len(insights)
      IN  /\ n >= 2
          /\ \E t \in TwoDecimalTexts :
                /\ insights[n - 1] = LeverageLine("Fear", t)
                /\ RowsClassified("Fear") = {} => t = "0.00"
          /\ \E t \in TwoDecimalTexts :
                /\ insights[n] = LeverageLine("Greed", t)
                /\ RowsClassified("Greed") = {} => t = "0.00"
          /\ \A i \in 1..(n - 2) : insights[i] \in {FearSentence, GreedSentence}

-----------------------------------------------------------------------------
(* C3.  merged_data is the inner join on the calendar date: a trade row    *)
(* appears once per sentiment row that has its date, and not at all when   *)
(* it has no date or no sentiment row has it; nothing else is in the       *)
(* merge; with unique sentiment dates the merge has as many rows as there  *)
(* are trades whose date is a sentiment date.                              *)
TradeWidth == Len(trader_data.columns)
TradeDate(t) == t[ColIdx(trader_data, "Date")]
SentimentDates == Col(fear_greed_data, "Date")
SentimentDays == {SentimentDates[i] : i \in 1..Len(SentimentDates)} \ {NaN}

\* Sentiment rows that carry the calendar date d.
SentimentRowsOn(d) ==
    IF IsNull(d) THEN {} ELSE {i \in 1..Len(SentimentDates) : SentimentDates[i] = d}

C3_InnerJoinOnDate ==
    pc = "constructed" =>
      /\ \A l \in 1..NRows(trader_data) :
            LET t == trader_data.data[l]
            IN  Cardinality({r \in MergedRows :
                    SubSeq(merged_data.data[r], 1, TradeWidth) = t})
                = Occurrences(trader_data.data, t)
                    * Cardinality(SentimentRowsOn(TradeDate(t)))
      /\ \A r \in MergedRows :
            \E l \in 1..NRows(trader_data) :
                SubSeq(merged_data.data[r], 1, TradeWidth) = trader_data.data[l]
      /\ (\A i, j \in 1..Len(SentimentDates) :
              SentimentDates[i] = SentimentDates[j] => i = j)
            => NRows(merged_data)
                 = Cardinality({l \in 1..NRows(trader_data) :
                      TradeDate(trader_data.data[l]) \in SentimentDays})

-----------------------------------------------------------------------------
(* C4.  load_trader_data raises the schema error exactly on the inputs     *)
(* that have neither a 'Timestamp IST' nor a 'time' column, whatever other *)
(* columns they have.                                                      *)
C4_SchemaErrorIffNoTimeColumn ==
    pc # "start" => (error = SchemaError <=> ~HasTimeColumn(trader_file))

C4_Witness ==
    /\ pc = "aborted"
    /\ error = SchemaError
    /\ \E j \in 1..Len(trader_file.header) : trader_file.header[j] = "leverage"

-----------------------------------------------------------------------------
(* C5.  When the trade input lacks the time column the run ends in the     *)
(* constructor and has written nothing: no chart, no workbook, no line.    *)
C5_NoPartialOutput ==
    ~HasTimeColumn(trader_file) => pc \in {"start", "aborted"} /\ NoOutput

C5_Witness ==
    /\ pc = "aborted"
    /\ ~HasTimeColumn(trader_file)
    /\ Len(trader_file.lines) = MaxTrades
    /\ NoOutput

-----------------------------------------------------------------------------
(* C6.  calculate_trader_metrics returns one row per (account, Date,       *)
(* Classification) combination of merged_data; its total_pnl is the sum of *)
(* closedPnL over exactly the merged rows of the combination and its       *)
(* trade_count their number.                                               *)
MergedKey(r) ==
    <<MergedCol("account")[r], MergedCol("Date")[r],
      MergedCol("Classification")[r]>>

RowsWithKey(key) == {r \in MergedRows : MergedKey(r) = key}

MetricRows == 1..NRows(trader_metrics)
MetricKey(g) == SubSeq(trader_metrics.data[g], 1, 3)
TotalPnl(g) == trader_metrics.data[g][4]
TradeCount(g) == trader_metrics.data[g][6]

\* The combination has exactly one metric row, and it holds the sum and
\* the count of the merged rows of the combination.
OneMetricRow(key) ==
    /\ Cardinality({g \in MetricRows : MetricKey(g) = key}) = 1
    /\ \A g \in MetricRows :
          MetricKey(g) = key =>
            /\ TotalPnl(g) = Num(SetSum(MergedPnl, RowsWithKey(key)))
            /\ TradeCount(g) = Num(Cardinality(RowsWithKey(key)))

\* As claimed: every combination present in merged_data has its row.
C6_RowPerCombination ==
    Exported =>
      /\ \A r \in MergedRows : OneMetricRow(MergedKey(r))
      /\ \A g \in MetricRows : RowsWithKey(MetricKey(g)) # {}

\* As amended: every combination without a null component has its row, and
\* a merged row with a null account, Date or Classification is in no row.
C6_RowPerNonNullCombination ==
    Exported =>
      /\ \A r \in MergedRows :
            IF HasNull(MergedKey(r))
            THEN \A g \in MetricRows : MetricKey(g) # MergedKey(r)
            ELSE OneMetricRow(MergedKey(r))
      /\ \A g \in MetricRows : RowsWithKey(MetricKey(g)) # {}

\* 10, -5 and 3 in one group give 8.
C6_Witness ==
    /\ pc = "exported"
    /\ \E g \in MetricRows : TotalPnl(g) = Num(8) /\ TradeCount(g) = Num(3)

-----------------------------------------------------------------------------
(* C7.  The Fear sentence is emitted if and only if the mean closedPnL of  *)
(* the merged rows classified Fear is below 0 (not when it is 0 or more,   *)
(* not when there is no such row); when emitted it is the first insight.   *)
FearMeanNegative ==
    /\ RowsClassified("Fear") # {}
    /\ SetSum(MergedPnl, RowsClassified("Fear")) < 0

C7_FearSentenceIffNegativeMean ==
    Analysed =>
      /\ (\E i \in 1..Len(insights) : insights[i] = FearSentence)
            <=> FearMeanNegative
      /\ \A i \in 1..Len(insights) : insights[i] = FearSentence => i = 1

\* Emitted on a negative mean of several Fear rows, some of them gains.
C7_Witness ==
    /\ pc = "analysed"
    /\ insights[1] = FearSentence
    /\ Cardinality(RowsClassified("Fear")) >= 2
    /\ \E r \in RowsClassified("Fear") : MergedPnl[r] > 0

-----------------------------------------------------------------------------
(* C8.  load_trader_data drops no row: it returns as many rows as the      *)
(* input has, whether or not a timestamp parses and whether or not the     *)
(* leverage column is present.                                             *)

\* A file with both a "Timestamp IST" and a "time" header has two "time"
\* columns once renamed, and the load ends with DuplicateTimeError.
C8_RowCountKept ==
    (pc # "start" /\ HasTimeColumn(trader_file)) =>
        /\ error \notin {SchemaError, DuplicateTimeError}
        /\ NRows(trader_data) = Len(trader_file.lines)

-----------------------------------------------------------------------------
(* C9.  For a sentiment series of n >= 1 rows with non-null                *)
(* classifications the transition counts pair every row but the first      *)
(* with the row before it in file order: the count of "P -> C" is the      *)
(* number of positions i > 1 with P at i-1 and C at i, the counts sum to   *)
(* n-1, and no bucket lacks its previous label.                            *)
FileLabels == [i \in 1..Len(fear_greed_file.lines) |-> fear_greed_file.lines[i][2]]

Labels == {"Fear", "Greed"}

PairLabel(p, c) == p \o " → " \o c

PairCount(p, c) ==
    Cardinality({i \in 2..Len(FileLabels) :
                    FileLabels[i - 1] = p /\ FileLabels[i] = c})

Transitions == files["sentiment_transitions.png"]

C9_TransitionsInFileOrder ==
    (Analysed /\ Len(FileLabels) >= 1
              /\ \A i \in 1..Len(FileLabels) : FileLabels[i] # "") =>
        /\ DOMAIN Transitions
              = {PairLabel(pr[1], pr[2]) :
                    pr \in {x \in Labels \X Labels : PairCount(x[1], x[2]) > 0}}
        /\ \A p \in Labels : \A c \in Labels :
              PairCount(p, c) > 0 =>
                  Transitions[PairLabel(p, c)] = Num(PairCount(p, c))
        /\ SetSum([t \in DOMAIN Transitions |-> Transitions[t].num],
                  DOMAIN Transitions) = Len(FileLabels) - 1

\* A series whose dates fall while the file goes on, with a repeated pair.
C9_Witness ==
    /\ pc = "analysed"
    /\ Len(FileLabels) = MaxSeries
    /\ \A i \in 1..Len(FileLabels) : FileLabels[i] # ""
    /\ fear_greed_file.lines[1][1] = "2024-02-01"
    /\ fear_greed_file.lines[2][1] = "2024-01-02"
    /\ PairCount("Fear", "Greed") = 2
    /\ Transitions[PairLabel("Fear", "Greed")] = Num(2)

-----------------------------------------------------------------------------
(* C10.  merged_data is built once by the constructor and no method        *)
(* changes it; the sentiment frame only gains the Prev_Sentiment and       *)
(* Transition columns, its rows, their order and their values staying as   *)
(* loaded; the 'Merged Data' sheet holds the merged set as constructed.    *)
LoadedTrades == load_trader_data(trader_file).df
LoadedSentiment == load_fear_greed_data(fear_greed_file).df
MergedAsConstructed == merge(LoadedTrades, LoadedSentiment)

TransitionColumns == <<"Prev_Sentiment", "Transition">>

C10_MergedReadOnly ==
    pc = "constructed" =>
      LET merged == MergedAsConstructed
          sentiment == LoadedSentiment
          width == Len(sentiment.columns)
      IN  /\ merged_data = merged
          /\ trader_data = LoadedTrades
          /\ fear_greed_data.columns \in
                {sentiment.columns, sentiment.columns \o TransitionColumns}
          /\ NRows(fear_greed_data) = NRows(sentiment)
          /\ \A r \in 1..NRows(fear_greed_data) :
                SubSeq(fear_greed_data.data[r], 1, width) = sentiment.data[r]
          /\ workbook # <<>> =>
                LET sheet == Sheet(workbook, "Merged Data")
                IN  /\ [j \in 1..Len(sheet.header) |-> sheet.header[j].text]
                          = merged.columns
                    /\ sheet.rows
                          = [r \in 1..NRows(merged) |->
                              [j \in 1..Len(merged.columns) |->
                                IF IsNull(merged.data[r][j])
                                THEN EmptyCell
                                ELSE merged.data[r][j]]]

\* Every method was called on an object whose merged set is not empty.
C10_Witness ==
    /\ pc = "constructed"
    /\ NRows(merged_data) >= 2
    /\ DOMAIN files = {"sentiment_distribution.png", "performance_by_sentiment.png",
                       "top_traders.png", "sentiment_transitions.png"}
    /\ HasCol(fear_greed_data, "Transition")
    /\ workbook # <<>>
    /\ Runs = MaxRuns
    /\ trader_metrics # None

====
